---- MODULE Spec2Model ----
(***************************************************************************)
(* Model of the police-statistics dashboard (proyecto-streamlit-app):      *)
(*   - fetch_api_all_records   (app.py)            paginated download      *)
(*   - fetch_json              (api_connection.py) single GET              *)
(*   - normalizar_columnas / normalize_column_names  column normalizers    *)
(*   - the dashboard run: source selection, validation, wide/long reshape  *)
(*   - the text filter and the CSV download                                *)
(*   - evolucion_anual / delitos_mas_frecuentes (utils/data_processing.py) *)
(* Strings are sequences of one-character strings so that trimming,        *)
(* case folding, replacement and substring search are computed.            *)
(***************************************************************************)
EXTENDS Integers, Sequences, FiniteSets, TLC

VARIABLES
    \* ---- fetch_api_all_records (app.py:30-50)
    server_n,       \* number of records the server holds (records are 1..server_n)
    page_limit,     \* the page_limit argument
    offset,         \* local variable offset
    records,        \* local variable records
    pc_fetch,       \* "idle" | "loop" | "returned" | "raised"
    fetch_result,   \* the rows of the returned DataFrame
    st_error,       \* TRUE once st.error(...) was called
    requests,       \* number of requests.get calls made
    sent_offsets,   \* the offsets sent, in order
    all_honest,     \* every response so far was a 200 page for [offset, offset+limit)
    failed,         \* some request failed (network, HTTP status, body)
    \* ---- fetch_json (api_connection.py:12-19)
    fj_pc,          \* "idle" | "get" | "status" | "json" | "returned" | "raised"
    fj_resp,        \* the response: [status, body]
    fj_value,       \* the value returned
    \* ---- column normalizers (app.py:64-67, utils/data_processing.py:26-39)
    col_name,       \* a column name of the input table
    norm_app,       \* its name after normalizar_columnas
    norm_utils,     \* its name after normalize_column_names
    norm_ran,       \* which of the two normalizers have run: "app", "utils"
    \* ---- the dashboard run (app.py:79-160)
    fuente,         \* the selected source: "API" | "CSV"
    dash_pc,        \* position of the script run
    load_outcome,   \* what loading gave: "api_failed", "api_nothing", "no_csv", "csv_raises", "table"
    df,             \* the table df: [cols, rows]
    st_warning,     \* TRUE once the validation's st.warning was shown
    columnas_delitos,   \* the candidate (value) columns
    is_month_format,
    is_region_format,
    id_vars,
    df_long,        \* [exists, cols, rows]; exists = FALSE stands for None
    df_display,     \* [cols, nrows]: the header and row count of df_display
    \* ---- the text filter and the download (app.py:303-315)
    f_pc,           \* "idle" | "input" | "done" | "raised"
    f_cells,        \* df_display[col_buscar].astype(str): one string per row
    texto,          \* the text entered
    df_filtrado,    \* the rows of df_filtrado, as row numbers of df_display
    f_shown,        \* the rows st.dataframe shows
    csv_rows,       \* the rows written to the downloadable CSV
    \* ---- evolucion_anual / delitos_mas_frecuentes (utils/data_processing.py:67-101)
    ag_pc,          \* "idle" | "input" | "evolucion_anual" | "delitos_mas_frecuentes"
    ag_has_key,     \* col_anio / col_delito is a column of df
    ag_has_total,   \* col_total is a column of df
    ag_rows,        \* the rows of df, as [key, total]: the two columns read
    ag_n,           \* the argument n
    ag_out          \* the rows of the returned table, as [key, total]

fetchVars == <<server_n, page_limit, offset, records, pc_fetch, fetch_result,
               st_error, requests, sent_offsets, all_honest, failed>>
fjVars == <<fj_pc, fj_resp, fj_value>>
normVars == <<col_name, norm_app, norm_utils, norm_ran>>
dashVars == <<fuente, dash_pc, load_outcome, df, st_warning, columnas_delitos,
              is_month_format, is_region_format, id_vars, df_long, df_display>>
filterVars == <<f_pc, f_cells, texto, df_filtrado, f_shown, csv_rows>>
aggVars == <<ag_pc, ag_has_key, ag_has_total, ag_rows, ag_n, ag_out>>
vars == <<fetchVars, fjVars, normVars, dashVars, filterVars, aggVars>>

\* What an operation of one part leaves alone: the other parts.
notFetch == <<fjVars, normVars, dashVars, filterVars, aggVars>>
notFj == <<fetchVars, normVars, dashVars, filterVars, aggVars>>
notNorm == <<fetchVars, fjVars, dashVars, filterVars, aggVars>>
notDash == <<fetchVars, fjVars, normVars, filterVars, aggVars>>
notFilter == <<fetchVars, fjVars, normVars, dashVars, aggVars>>
notAgg == <<fetchVars, fjVars, normVars, dashVars, filterVars>>

Min(a, b) == IF a <= b THEN a ELSE b

----------------------------------------------------------------------------
\* Bounds of the model
MaxRecords == 6
MaxPageLimit == 3
MaxNameLen == 3
MaxCols == 2
MaxRows == 2
MaxMissing == 1
MaxFilterRows == 2
MaxCellLen == 2
MaxTextLen == 2
MaxAggRows == 3
MaxTop == 2

----------------------------------------------------------------------------
\* HTTP responses

\* Status codes a server may answer with.
HttpStatuses == {200, 201, 202, 204, 301, 304, 400, 401, 403, 404, 409, 500, 502, 503}

\* requests.Response.raise_for_status(): raises HTTPError for 4xx and 5xx only.
RaiseForStatus(status) == status >= 400 /\ status < 600

\* Bodies: a JSON object with result.records, a JSON object without "result",
\* a JSON value that is no object (a list), and bytes that are not JSON.
BodyKinds == {"page", "no_result", "not_object", "not_json"}

\* resp.json() raises on bytes that are not JSON.
JsonRaises(body) == body = "not_json"

\* data.get("result", {}) raises AttributeError when data is no dict.
GetRaises(body) == body = "not_object"

----------------------------------------------------------------------------
\* fetch_api_all_records

ServerRecords(n) == [i \in 1..n |-> i]

\* The records at positions [off, off+lim) of the server's table.
ServerPage(n, off, lim) == SubSeq(ServerRecords(n), off + 1, Min(off + lim, n))

\* offset += len(batch)
NextOffsetBug(off, batch) == off + Len(batch) + 1
NextOffset(off, batch) == off + Len(batch)

\* if len(batch) < page_limit: break
ShortPageBug(batch, lim) == Len(batch) <= lim
ShortPage(batch, lim) == Len(batch) < lim

\* except Exception: st.error(...); return pd.DataFrame()
ExceptResultBug(recs) == recs
ExceptResult(recs) == <<>>

FetchIdle ==
    /\ server_n = 0 /\ page_limit = 0 /\ offset = 0 /\ records = <<>>
    /\ pc_fetch = "idle" /\ fetch_result = <<>> /\ st_error = FALSE
    /\ requests = 0 /\ sent_offsets = <<>> /\ all_honest = TRUE /\ failed = FALSE

FetchInit ==
    /\ server_n \in 0..MaxRecords
    /\ page_limit \in 1..MaxPageLimit
    /\ offset = 0
    /\ records = <<>>
    /\ pc_fetch = "loop"
    /\ fetch_result = <<>>
    /\ st_error = FALSE
    /\ requests = 0
    /\ sent_offsets = <<>>
    /\ all_honest = TRUE
    /\ failed = FALSE

\* One iteration whose request raises inside the try block: requests.get raises
\* (network), raise_for_status raises (HTTP status), resp.json() raises (body is
\* not JSON) or data.get raises (body is no object). The except clause reports
\* the error and returns an empty DataFrame.
RequestFails ==
    /\ pc_fetch = "loop"
    /\ \E net \in BOOLEAN, status \in HttpStatuses, body \in BodyKinds :
          /\ net \/ RaiseForStatus(status) \/ JsonRaises(body) \/ GetRaises(body)
          /\ requests' = requests + 1
          /\ sent_offsets' = Append(sent_offsets, offset)
          /\ failed' = TRUE
          /\ all_honest' = FALSE
          /\ st_error' = TRUE
          /\ fetch_result' = ExceptResult(records)
          /\ pc_fetch' = "returned"
    /\ UNCHANGED <<server_n, page_limit, offset, records>>
    /\ UNCHANGED notFetch

\* One iteration whose request is answered without an exception: the batch is
\* the page of the server's table, or [] when the body has no "result".
RequestAnswered ==
    /\ pc_fetch = "loop"
    /\ \E status \in HttpStatuses, body \in {"page", "no_result"} :
          /\ ~RaiseForStatus(status)
          /\ LET batch == IF body = "page"
                          THEN ServerPage(server_n, offset, page_limit)
                          ELSE <<>>
                 stop == batch = <<>> \/ ShortPage(batch, page_limit)
             IN  /\ requests' = requests + 1
                 /\ sent_offsets' = Append(sent_offsets, offset)
                 /\ all_honest' = (all_honest /\ status = 200 /\ body = "page")
                 /\ records' = IF batch = <<>> THEN records ELSE records \o batch
                 /\ offset' = IF batch = <<>> THEN offset ELSE NextOffset(offset, batch)
                 /\ pc_fetch' = IF stop THEN "returned" ELSE "loop"
                 /\ fetch_result' = IF stop THEN records' ELSE fetch_result
    /\ UNCHANGED <<server_n, page_limit, st_error, failed>>
    /\ UNCHANGED notFetch

FetchNext == RequestFails \/ RequestAnswered

----------------------------------------------------------------------------
\* fetch_json

JsonValues == {"v1", "v2", "v3"}

FjIdle == fj_pc = "idle" /\ fj_resp = [status |-> 0, body |-> "none"] /\ fj_value = "none"

FjInit ==
    /\ fj_pc = "get"
    /\ fj_resp = [status |-> 0, body |-> "none"]
    /\ fj_value = "none"

\* resp = requests.get(...): a response arrives
FjGet ==
    /\ fj_pc = "get"
    /\ \E status \in HttpStatuses, body \in JsonValues \cup {"not_json"} :
          fj_resp' = [status |-> status, body |-> body]
    /\ fj_pc' = "status"
    /\ UNCHANGED fj_value
    /\ UNCHANGED notFj

\* requests.get raises (connection error, timeout)
FjGetRaises ==
    /\ fj_pc = "get"
    /\ fj_pc' = "raised"
    /\ UNCHANGED <<fj_resp, fj_value>>
    /\ UNCHANGED notFj

\* resp.raise_for_status()
FjRaiseForStatus ==
    /\ fj_pc = "status"
    /\ fj_pc' = IF RaiseForStatus(fj_resp.status) THEN "raised" ELSE "json"
    /\ UNCHANGED <<fj_resp, fj_value>>
    /\ UNCHANGED notFj

\* return resp.json()
FjJson ==
    /\ fj_pc = "json"
    /\ IF JsonRaises(fj_resp.body)
       THEN fj_pc' = "raised" /\ UNCHANGED fj_value
       ELSE fj_pc' = "returned" /\ fj_value' = fj_resp.body
    /\ UNCHANGED fj_resp
    /\ UNCHANGED notFj

FjNext == FjGet \/ FjGetRaises \/ FjRaiseForStatus \/ FjJson

----------------------------------------------------------------------------
\* Strings: sequences of one-character strings. "a'" stands for a with an acute
\* accent, "A'" for its capital, and so on; "n~" for n with tilde.

UpperLetters == <<"A", "B", "C", "D", "E", "F", "G", "H", "I", "J", "K", "L", "M",
                  "N", "O", "P", "Q", "R", "S", "T", "U", "V", "W", "X", "Y", "Z",
                  "A'", "E'", "I'", "O'", "U'", "N~">>
LowerLetters == <<"a", "b", "c", "d", "e", "f", "g", "h", "i", "j", "k", "l", "m",
                  "n", "o", "p", "q", "r", "s", "t", "u", "v", "w", "x", "y", "z",
                  "a'", "e'", "i'", "o'", "u'", "n~">>

\* str.lower() on one character
LowerChar(c) ==
    IF \E i \in 1..Len(UpperLetters) : UpperLetters[i] = c
    THEN LowerLetters[CHOOSE i \in 1..Len(UpperLetters) : UpperLetters[i] = c]
    ELSE c

\* str.lower()
Lower(s) == [i \in 1..Len(s) |-> LowerChar(s[i])]

Whitespace == {" ", "\t"}

RECURSIVE LStrip(_)
LStrip(s) == IF s # <<>> /\ Head(s) \in Whitespace THEN LStrip(Tail(s)) ELSE s

RECURSIVE RStrip(_)
RStrip(s) ==
    IF s # <<>> /\ s[Len(s)] \in Whitespace THEN RStrip(SubSeq(s, 1, Len(s) - 1)) ELSE s

\* str.strip()
Strip(s) == RStrip(LStrip(s))

\* str.replace(old, new) for a one-character old and new
ReplaceChar(s, old, new) == [i \in 1..Len(s) |-> IF s[i] = old THEN new ELSE s[i]]

\* s.startswith(p)
StartsWith(s, p) == Len(p) <= Len(s) /\ SubSeq(s, 1, Len(p)) = p

\* p in s
Contains(s, p) ==
    \E i \in 0..(Len(s) - Len(p)) : SubSeq(s, i + 1, i + Len(p)) = p

----------------------------------------------------------------------------
\* Column normalizers

\* app.py normalizar_columnas: str(c).strip().lower().replace(" ", "_")
NormalizarColumna(c) == ReplaceChar(Lower(Strip(c)), " ", "_")

\* the chained .replace calls of normalize_column_names
FoldAccents(s) ==
    ReplaceChar(ReplaceChar(ReplaceChar(ReplaceChar(ReplaceChar(ReplaceChar(s,
        "a'", "a"), "e'", "e"), "i'", "i"), "o'", "o"), "u'", "u"), "n~", "n")

\* utils/data_processing.py normalize_column_names, on one column name
NormalizeColumnName(c) == FoldAccents(ReplaceChar(Lower(Strip(c)), " ", "_"))

\* Characters of the column names the normalizers are run on
NameChars == {" ", "a", "A", "a'", "A'"}

RECURSIVE StringsUpTo(_, _)
StringsUpTo(chars, n) ==
    IF n = 0 THEN {<<>>}
    ELSE LET shorter == StringsUpTo(chars, n - 1)
         IN  shorter \cup {Append(s, c) : s \in shorter, c \in chars}

NormIdle == col_name = <<>> /\ norm_app = <<>> /\ norm_utils = <<>> /\ norm_ran = {}

NormInit ==
    /\ col_name \in StringsUpTo(NameChars, MaxNameLen)
    /\ norm_app = <<>>
    /\ norm_utils = <<>>
    /\ norm_ran = {}

\* df = normalizar_columnas(df)
RunNormalizarColumnas ==
    /\ "app" \notin norm_ran
    /\ norm_app' = NormalizarColumna(col_name)
    /\ norm_ran' = norm_ran \cup {"app"}
    /\ UNCHANGED <<col_name, norm_utils>>
    /\ UNCHANGED notNorm

\* df = normalize_column_names(df)
RunNormalizeColumnNames ==
    /\ "utils" \notin norm_ran
    /\ norm_utils' = NormalizeColumnName(col_name)
    /\ norm_ran' = norm_ran \cup {"utils"}
    /\ UNCHANGED <<col_name, norm_app>>
    /\ UNCHANGED notNorm

NormNext == RunNormalizarColumnas \/ RunNormalizeColumnNames

----------------------------------------------------------------------------
\* The dashboard run: source selection, validation, normalization, reshape

MESES == <<
    <<"e", "n", "e", "r", "o">>,
    <<"f", "e", "b", "r", "e", "r", "o">>,
    <<"m", "a", "r", "z", "o">>,
    <<"a", "b", "r", "i", "l">>,
    <<"m", "a", "y", "o">>,
    <<"j", "u", "n", "i", "o">>,
    <<"j", "u", "l", "i", "o">>,
    <<"a", "g", "o", "s", "t", "o">>,
    <<"s", "e", "p", "t", "i", "e", "m", "b", "r", "e">>,
    <<"o", "c", "t", "u", "b", "r", "e">>,
    <<"n", "o", "v", "i", "e", "m", "b", "r", "e">>,
    <<"d", "i", "c", "i", "e", "m", "b", "r", "e">>>>

COL_ID == <<"_", "i", "d">>
COL_DELITO == <<"d", "e", "l", "i", "t", "o">>
COL_TOTAL_GENERAL == <<"t", "o", "t", "a", "l", "_", "g", "e", "n", "e", "r", "a", "l">>
COL_MODERNIZACION ==
    <<"d", "e", "l", "i", "t", "o", "s", "_", "s", "e", "g", "u", "n", "_", "a", "g", "r", "u", "p", "a", "c", "i", "o", "n", "_">> \o
    <<"p", "o", "r", "_", "m", "o", "d", "e", "r", "n", "i", "z", "a", "c", "i", "o", "n">>
COL_REGION_MES == <<"r", "e", "g", "i", "o", "n", "_", "m", "e", "s">>
COL_CANTIDAD == <<"c", "a", "n", "t", "i", "d", "a", "d">>
STR_REGION == <<"r", "e", "g", "i", "o", "n">>
STR_REGION_ == <<"r", "e", "g", "i", "o", "n", "_">>
STR_REGION_DE_ == <<"r", "e", "g", "i", "o", "n", "_", "d", "e", "_">>

\* Column names of the source tables, as the API or the CSV files give them.
RawNames == <<
    COL_ID,
    <<"D", "e", "l", "i", "t", "o">>,
    COL_TOTAL_GENERAL,
    COL_MODERNIZACION,
    <<" ", "E", "n", "e", "r", "o">>,
    <<"T", "o", "t", "a", "l", " ", "M", "a", "y", "o">>,
    <<"R", "e", "g", "i", "o", "n", "_", "d", "e", "_", "A", "r", "i", "c", "a">>,
    <<"N", "o", "m", "b", "r", "e", " ", "R", "e", "g", "i", "o", "n">>,
    <<"c", "o", "m", "u", "n", "a">>>>

\* A missing cell (NaN)
NA == 0 - 1

\* The value the source holds at row r, column j: distinct cells hold distinct
\* values, so a cell of a reshaped table tells where it came from.
CellAt(r, j) == 10 * r + j

Range(f) == {f[i] : i \in DOMAIN f}

\* The names at the chosen positions of RawNames, in that order.
HeaderOf(S) ==
    LET idx == SelectSeq([i \in 1..Len(RawNames) |-> i], LAMBDA i : i \in S)
    IN  [k \in 1..Len(idx) |-> RawNames[idx[k]]]

\* A source table never holds both the exported name and "Delito".
Headers ==
    {HeaderOf(S) : S \in {T \in SUBSET (1..Len(RawNames)) :
                             Cardinality(T) <= MaxCols /\ ~({2, 4} \subseteq T)}}

\* The tables with header h and n rows of which at most MaxMissing cells are missing
TablesOf(h, n) ==
    {[cols |-> h,
      rows |-> [r \in 1..n |-> [j \in 1..Len(h) |->
                   IF <<r, j>> \in M THEN NA ELSE CellAt(r, j)]]] :
        M \in {X \in SUBSET ((1..n) \X (1..Len(h))) : Cardinality(X) <= MaxMissing}}

Tables == UNION {TablesOf(h, n) : h \in Headers, n \in 0..MaxRows}

EmptyFrame == [cols |-> <<>>, rows |-> <<>>]
NoLong == [exists |-> FALSE, cols |-> <<>>, rows |-> <<>>]

\* DataFrame.empty: some axis has length 0
DfEmptyBug(t) == Len(t.rows) = 0
DfEmpty(t) == Len(t.cols) = 0 \/ Len(t.rows) = 0

\* df.fillna(0)
FillNa(t) ==
    [t EXCEPT !.rows = [r \in 1..Len(t.rows) |->
                           [j \in 1..Len(t.cols) |->
                               IF t.rows[r][j] = NA THEN 0 ELSE t.rows[r][j]]]]

\* df.rename(columns={"delitos_segun_agrupacion_por_modernizacion": "delito"})
RenameDelito(cols) ==
    [j \in 1..Len(cols) |-> IF cols[j] = COL_MODERNIZACION THEN COL_DELITO ELSE cols[j]]

cols_excluir == {COL_ID, COL_DELITO, COL_TOTAL_GENERAL}

\* [c for c in df.columns if c not in cols_excluir]
ColumnasDelitos(cols) == SelectSeq(cols, LAMBDA c : c \notin cols_excluir)

\* any(m in c for m in MESES)
HasMonthBug(c) == \E k \in 1..Len(MESES) : StartsWith(c, MESES[k])
HasMonth(c) == \E k \in 1..Len(MESES) : Contains(c, MESES[k])

\* any(any(m in c for m in MESES) for c in columnas_delitos)
IsMonthFormat(cands) == \E j \in 1..Len(cands) : HasMonth(cands[j])

\* any(c.startswith("region_") or c.startswith("region") for c in columnas_delitos)
IsRegionFormat(cands) ==
    \E j \in 1..Len(cands) :
        StartsWith(cands[j], STR_REGION_) \/ StartsWith(cands[j], STR_REGION)

\* df[c].nunique()
NUnique(t, j) == Cardinality({t.rows[r][j] : r \in 1..Len(t.rows)})

IdVarMaxUnique == 200

\* id_vars = [c for c in df.columns if c in ["delito"] or df[c].nunique() <= 200]
\* if "delito" in df.columns: id_vars = ["delito"] + [c for c in id_vars if c != "delito"]
IdVars(t) ==
    LET idx == SelectSeq([j \in 1..Len(t.cols) |-> j],
                         LAMBDA j : t.cols[j] = COL_DELITO \/ NUnique(t, j) <= IdVarMaxUnique)
        first == [k \in 1..Len(idx) |-> t.cols[idx[k]]]
    IN  IF COL_DELITO \in Range(t.cols)
        THEN <<COL_DELITO>> \o SelectSeq(first, LAMBDA c : c # COL_DELITO)
        ELSE first

\* position of column c in the header
ColIndex(cols, c) == CHOOSE j \in 1..Len(cols) : cols[j] = c

\* s.replace(old, "") for a string old
RECURSIVE RemoveAll(_, _)
RemoveAll(s, old) ==
    IF s = <<>> THEN <<>>
    ELSE IF StartsWith(s, old) THEN RemoveAll(SubSeq(s, Len(old) + 1, Len(s)), old)
    ELSE <<Head(s)>> \o RemoveAll(Tail(s), old)

\* .str.replace("region_de_", "", regex=False).str.replace("_", " ").str.strip().str.lower()
\* and then .apply(lambda x: x.lower())
CleanRegionMes(c) ==
    Lower(Lower(Strip(ReplaceChar(RemoveAll(c, STR_REGION_DE_), "_", " "))))

\* DataFrame.melt(id_vars, value_vars, var_name="region_mes", value_name="cantidad"):
\* the frame is cut to the id and value columns, the id columns are popped from
\* it, and every column left gives one row per row of the frame. A value column
\* that is also an id column is popped with the id columns and gives no rows.
Melt(t, ids, values) ==
    LET melted == SelectSeq(values, LAMBDA c : c \notin Range(ids))
        n == Len(t.rows)
    IN  [exists |-> TRUE,
         cols |-> ids \o <<COL_REGION_MES, COL_CANTIDAD>>,
         rows |-> [i \in 1..(n * Len(melted)) |->
                    LET k == ((i - 1) \div n) + 1
                        r == ((i - 1) % n) + 1
                    IN  [src |-> r,
                         ids |-> [m \in 1..Len(ids) |-> t.rows[r][ColIndex(t.cols, ids[m])]],
                         region_mes |-> CleanRegionMes(melted[k]),
                         cantidad |-> t.rows[r][ColIndex(t.cols, melted[k])]]]]

DashIdle ==
    /\ fuente = "none" /\ dash_pc = "idle" /\ load_outcome = "none"
    /\ df = EmptyFrame /\ st_warning = FALSE /\ columnas_delitos = <<>>
    /\ is_month_format = FALSE /\ is_region_format = FALSE /\ id_vars = <<>>
    /\ df_long = NoLong /\ df_display = [cols |-> <<>>, nrows |-> 0]

\* fuente = st.sidebar.radio(...); df = pd.DataFrame(); dataset_name = None
DashInit ==
    /\ fuente \in {"API", "CSV"}
    /\ dash_pc = "load"
    /\ load_outcome = "none"
    /\ df = EmptyFrame
    /\ st_warning = FALSE
    /\ columnas_delitos = <<>>
    /\ is_month_format = FALSE
    /\ is_region_format = FALSE
    /\ id_vars = <<>>
    /\ df_long = NoLong
    /\ df_display = [cols |-> <<>>, nrows |-> 0]

dashRest == <<columnas_delitos, is_month_format, is_region_format, id_vars,
              df_long, df_display>>

\* df = fetch_api_all_records(url, page_limit=1000): the download fails (an empty
\* DataFrame after st.error), the server holds no records, or the records arrive.
LoadApi ==
    /\ dash_pc = "load" /\ fuente = "API"
    /\ \E out \in {"api_failed", "api_nothing", "table"} :
          /\ load_outcome' = out
          /\ IF out = "table"
             THEN \E t \in Tables : Len(t.rows) > 0 /\ df' = t
             ELSE df' = EmptyFrame
    /\ dash_pc' = "validate"
    /\ UNCHANGED <<fuente, st_warning>>
    /\ UNCHANGED dashRest
    /\ UNCHANGED notDash

\* archivos = listar_csvs(); if not archivos: st.sidebar.warning(...)
LoadCsvNoFiles ==
    /\ dash_pc = "load" /\ fuente = "CSV"
    /\ load_outcome' = "no_csv"
    /\ dash_pc' = "validate"
    /\ UNCHANGED <<fuente, df, st_warning>>
    /\ UNCHANGED dashRest
    /\ UNCHANGED notDash

\* df = load_csv_local(ruta): the file is read (a header-only file gives no rows)
LoadCsv ==
    /\ dash_pc = "load" /\ fuente = "CSV"
    /\ \E t \in Tables : Len(t.cols) > 0 /\ df' = t
    /\ load_outcome' = "table"
    /\ dash_pc' = "validate"
    /\ UNCHANGED <<fuente, st_warning>>
    /\ UNCHANGED dashRest
    /\ UNCHANGED notDash

\* load_csv_local raises in both encodings (an empty or unreadable file): the
\* exception is not caught and ends the run.
LoadCsvRaises ==
    /\ dash_pc = "load" /\ fuente = "CSV"
    /\ load_outcome' = "csv_raises"
    /\ dash_pc' = "crashed"
    /\ UNCHANGED <<fuente, df, st_warning>>
    /\ UNCHANGED dashRest
    /\ UNCHANGED notDash

\* if df is None or df.empty: st.warning(...); st.stop()
Validate ==
    /\ dash_pc = "validate"
    /\ IF DfEmpty(df)
       THEN st_warning' = TRUE /\ dash_pc' = "stopped"
       ELSE st_warning' = st_warning /\ dash_pc' = "normalize"
    /\ UNCHANGED <<fuente, load_outcome, df>>
    /\ UNCHANGED dashRest
    /\ UNCHANGED notDash

\* df = normalizar_columnas(df)
Normalize ==
    /\ dash_pc = "normalize"
    /\ df' = [df EXCEPT !.cols = [j \in 1..Len(df.cols) |-> NormalizarColumna(df.cols[j])]]
    /\ dash_pc' = "clean"
    /\ UNCHANGED <<fuente, load_outcome, st_warning>>
    /\ UNCHANGED dashRest
    /\ UNCHANGED notDash

\* df = df.fillna(0) and the numeric conversion of text columns
Clean ==
    /\ dash_pc = "clean"
    /\ df' = FillNa(df)
    /\ dash_pc' = "detect"
    /\ UNCHANGED <<fuente, load_outcome, st_warning>>
    /\ UNCHANGED dashRest
    /\ UNCHANGED notDash

\* the rename, cols_excluir / columnas_delitos, is_month_format, is_region_format
\* and the test that opens the melt block
Detect ==
    /\ dash_pc = "detect"
    /\ LET renamed == RenameDelito(df.cols)
           cands == ColumnasDelitos(renamed)
       IN  /\ df' = [df EXCEPT !.cols = renamed]
           /\ columnas_delitos' = cands
           /\ is_month_format' = IsMonthFormat(cands)
           /\ is_region_format' = IsRegionFormat(cands)
           /\ dash_pc' = IF IsMonthFormat(cands) \/ IsRegionFormat(cands)
                         THEN "melt" ELSE "display"
    /\ UNCHANGED <<fuente, load_outcome, st_warning, id_vars, df_long, df_display>>
    /\ UNCHANGED notDash

\* id_vars = ...; df_long = df.melt(...); the cleaning of region_mes
MeltStep ==
    /\ dash_pc = "melt"
    /\ id_vars' = IdVars(df)
    /\ df_long' = Melt(df, IdVars(df), columnas_delitos)
    /\ dash_pc' = "display"
    /\ UNCHANGED <<fuente, load_outcome, df, st_warning, columnas_delitos,
                   is_month_format, is_region_format, df_display>>
    /\ UNCHANGED notDash

\* df_display = df_long.copy() if df_long is not None else df.copy()
Display ==
    /\ dash_pc = "display"
    /\ df_display' = IF df_long.exists
                     THEN [cols |-> df_long.cols, nrows |-> Len(df_long.rows)]
                     ELSE [cols |-> df.cols, nrows |-> Len(df.rows)]
    /\ dash_pc' = "charts"
    /\ UNCHANGED <<fuente, load_outcome, df, st_warning, columnas_delitos,
                   is_month_format, is_region_format, id_vars, df_long>>
    /\ UNCHANGED notDash

DashNext ==
    \/ LoadApi \/ LoadCsvNoFiles \/ LoadCsv \/ LoadCsvRaises
    \/ Validate \/ Normalize \/ Clean \/ Detect \/ MeltStep \/ Display

----------------------------------------------------------------------------
\* The text filter and the download

\* Characters of the cells of the filtered column, and of the text entered
CellChars == {"a", "A", "."}
TextChars == {"a", "A", ".", "("}

\* re.compile(texto): a pattern with an unclosed "(" is rejected with re.error
RegexCompiles(pat) == \A k \in 1..Len(pat) : pat[k] # "("

\* one pattern character against one character under re.IGNORECASE: "." matches
\* any character, a letter matches itself in either case
RegexCharMatches(p, c) == p = "." \/ LowerChar(p) = LowerChar(c)

\* Series.str.contains(pat, case=False, na=False): regex defaults to True, so
\* the cell passes when re.search finds the pattern somewhere in it
StrContainsLiteral(cell, pat) ==
    \E i \in 0..(Len(cell) - Len(pat)) :
        \A k \in 1..Len(pat) : LowerChar(pat[k]) = LowerChar(cell[i + k])
StrContains(cell, pat) ==
    \E i \in 0..(Len(cell) - Len(pat)) :
        \A k \in 1..Len(pat) : RegexCharMatches(pat[k], cell[i + k])

\* st.dataframe(df_filtrado.head(200))
HeadShown == 200

\* DataFrame.head(n) / Series.head(n) for n >= 0
HeadNBug(rows, n) == SubSeq(rows, 1, Min(n + 1, Len(rows)))
HeadN(rows, n) == SubSeq(rows, 1, Min(n, Len(rows)))

FilterIdle ==
    /\ f_pc = "idle" /\ f_cells = <<>> /\ texto = <<>>
    /\ df_filtrado = <<>> /\ f_shown = <<>> /\ csv_rows = <<>>

\* col_buscar = st.selectbox(...); texto = st.text_input(...)
FilterInit ==
    /\ f_pc = "input"
    /\ f_cells \in UNION {[1..n -> StringsUpTo(CellChars, MaxCellLen)] : n \in 0..MaxFilterRows}
    /\ texto \in StringsUpTo(TextChars, MaxTextLen)
    /\ df_filtrado = <<>>
    /\ f_shown = <<>>
    /\ csv_rows = <<>>

\* df_filtrado = df_display.copy(); if texto: df_filtrado = df_filtrado[...contains...]
\* st.dataframe(df_filtrado.head(200)); csv_bytes = df_to_csv_bytes(df_filtrado)
ApplyFilter ==
    /\ f_pc = "input"
    /\ texto = <<>> \/ RegexCompiles(texto)
    /\ LET all == [i \in 1..Len(f_cells) |-> i]
           kept == IF texto = <<>> THEN all
                   ELSE SelectSeq(all, LAMBDA i : StrContains(f_cells[i], texto))
       IN  /\ df_filtrado' = kept
           /\ f_shown' = HeadN(kept, HeadShown)
           /\ csv_rows' = kept
    /\ f_pc' = "done"
    /\ UNCHANGED <<f_cells, texto>>
    /\ UNCHANGED notFilter

\* the pattern does not compile: str.contains raises re.error and the run ends
FilterRaises ==
    /\ f_pc = "input"
    /\ texto # <<>> /\ ~RegexCompiles(texto)
    /\ f_pc' = "raised"
    /\ UNCHANGED <<f_cells, texto, df_filtrado, f_shown, csv_rows>>
    /\ UNCHANGED notFilter

FilterNext == ApplyFilter \/ FilterRaises

----------------------------------------------------------------------------
\* evolucion_anual and delitos_mas_frecuentes

\* Values of the grouping column (years, crime categories) and of col_total
AggKeys == {1, 2, 3}
AggTotals == {0, 1, 2}

\* df.groupby(col)[col_total]: the groups
GroupKeys(rows) == {rows[i].key : i \in 1..Len(rows)}

\* .sum() of one group
RECURSIVE GroupSum(_, _)
GroupSum(rows, k) ==
    IF rows = <<>> THEN 0
    ELSE (IF Head(rows).key = k THEN Head(rows).total ELSE 0) + GroupSum(Tail(rows), k)

\* the orders of a set of keys
RECURSIVE Orders(_)
Orders(S) ==
    IF S = {} THEN {<<>>}
    ELSE UNION {{<<k>> \o o : o \in Orders(S \ {k})} : k \in S}

\* Series.sort_values(ascending=...): the default sort is not stable, so groups
\* with equal sums come out in any order
SortValues(rows, ascending) ==
    {[i \in 1..Len(o) |-> [key |-> o[i], total |-> GroupSum(rows, o[i])]] :
        o \in {p \in Orders(GroupKeys(rows)) :
                 \A i \in 1..(Len(p) - 1) :
                    IF ascending
                    THEN GroupSum(rows, p[i]) <= GroupSum(rows, p[i + 1])
                    ELSE GroupSum(rows, p[i]) >= GroupSum(rows, p[i + 1])}}

AggIdle ==
    /\ ag_pc = "idle" /\ ag_has_key = FALSE /\ ag_has_total = FALSE
    /\ ag_rows = <<>> /\ ag_n = 0 /\ ag_out = <<>>

AggInit ==
    /\ ag_pc = "input"
    /\ ag_has_key \in BOOLEAN
    /\ ag_has_total \in BOOLEAN
    /\ ag_rows \in UNION {[1..n -> [key : AggKeys, total : AggTotals]] : n \in 0..MaxAggRows}
    /\ ag_n \in 0..MaxTop
    /\ ag_out = <<>>

\* evolucion_anual(df, col_anio, col_total)
EvolucionAnual ==
    /\ ag_pc = "input"
    /\ IF ~ag_has_key \/ ~ag_has_total
       THEN ag_out' = <<>>
       ELSE ag_out' \in SortValues(ag_rows, TRUE)
    /\ ag_pc' = "evolucion_anual"
    /\ UNCHANGED <<ag_has_key, ag_has_total, ag_rows, ag_n>>
    /\ UNCHANGED notAgg

\* delitos_mas_frecuentes(df, col_delito, col_total, n)
DelitosMasFrecuentes ==
    /\ ag_pc = "input"
    /\ IF ~ag_has_key \/ ~ag_has_total
       THEN ag_out' = <<>>
       ELSE \E sorted \in SortValues(ag_rows, FALSE) : ag_out' = HeadN(sorted, ag_n)
    /\ ag_pc' = "delitos_mas_frecuentes"
    /\ UNCHANGED <<ag_has_key, ag_has_total, ag_rows, ag_n>>
    /\ UNCHANGED notAgg

AggNext == EvolucionAnual \/ DelitosMasFrecuentes

----------------------------------------------------------------------------
\* Specifications

InitFetch == FetchInit /\ FjIdle /\ NormIdle /\ DashIdle /\ FilterIdle /\ AggIdle
SpecFetch == InitFetch /\ [][FetchNext]_vars

InitFetchJson == FjInit /\ FetchIdle /\ NormIdle /\ DashIdle /\ FilterIdle /\ AggIdle
SpecFetchJson == InitFetchJson /\ [][FjNext]_vars

InitNorm == NormInit /\ FetchIdle /\ FjIdle /\ DashIdle /\ FilterIdle /\ AggIdle
SpecNorm == InitNorm /\ [][NormNext]_vars

InitDash == DashInit /\ FetchIdle /\ FjIdle /\ NormIdle /\ FilterIdle /\ AggIdle
SpecDash == InitDash /\ [][DashNext]_vars

InitFilter == FilterInit /\ FetchIdle /\ FjIdle /\ NormIdle /\ DashIdle /\ AggIdle
SpecFilter == InitFilter /\ [][FilterNext]_vars

InitAgg == AggInit /\ FetchIdle /\ FjIdle /\ NormIdle /\ DashIdle /\ FilterIdle
SpecAgg == InitAgg /\ [][AggNext]_vars

----------------------------------------------------------------------------
\* Properties

\* C1: against a server that answers every request with status 200 and the
\* records at positions [offset, offset+limit), fetch_api_all_records returns
\* exactly the server's records, each once and in server order.
FetchReturnsAllRecords ==
    (pc_fetch = "returned" /\ all_honest) => fetch_result = ServerRecords(server_n)

\* C1 witness: a download of several full pages has returned the whole table.
FetchReturnsAllRecordsWitness ==
    /\ pc_fetch = "returned" /\ all_honest
    /\ requests > 2
    /\ server_n = 2 * page_limit
    /\ fetch_result = ServerRecords(server_n)

\* C2: when a request fails on any page, fetch_api_all_records does not raise,
\* reports the error and returns an empty table, never the pages downloaded
\* before the failure.
FetchFailureReturnsEmpty ==
    /\ pc_fetch # "raised"
    /\ failed => (pc_fetch = "returned" /\ st_error /\ fetch_result = <<>>)

\* C2 witness: a request failed after earlier pages had been accumulated.
FetchFailureReturnsEmptyWitness ==
    /\ failed /\ pc_fetch = "returned"
    /\ requests > 1 /\ records # <<>>
    /\ fetch_result = <<>>

\* C3: both normalizers map a column name to its trimmed, lowercased form with
\* spaces replaced by underscores and accents folded, and so agree.
NormalizersAgree ==
    norm_ran = {"app", "utils"} =>
        /\ norm_app = norm_utils
        /\ norm_app = FoldAccents(ReplaceChar(Lower(Strip(col_name)), " ", "_"))

\* C4: fetch_json returns the parsed body only when the status is 200; with any
\* other status the call ends in an exception.
FetchJsonOnly200 ==
    /\ fj_pc = "returned" => (fj_resp.status = 200 /\ fj_value = fj_resp.body)
    /\ (fj_pc \in {"returned", "raised"} /\ fj_resp.status # 200) => fj_pc = "raised"

\* Positions of the run after the validation let it pass
Downstream == {"normalize", "clean", "detect", "melt", "display", "charts"}

\* C5 (as stated): the run reshapes exactly when some candidate column (any
\* column other than _id, delito and total_general) contains a month name or the
\* word "region" as a substring.
ReshapeIffContainsMonthOrRegion ==
    dash_pc \in {"melt", "display", "charts"} =>
        ((is_month_format \/ is_region_format) <=>
            \E j \in 1..Len(df.cols) :
                /\ df.cols[j] \notin {COL_ID, COL_DELITO, COL_TOTAL_GENERAL}
                /\ \/ \E k \in 1..Len(MESES) : Contains(df.cols[j], MESES[k])
                   \/ Contains(df.cols[j], STR_REGION))

\* C5 (amended): the run reshapes exactly when some candidate column contains a
\* month name as a substring or begins with "region"; df_long stays None
\* otherwise.
ReshapeIffMonthOrRegionPrefix ==
    /\ dash_pc \in {"melt", "display", "charts"} =>
          ((is_month_format \/ is_region_format) <=>
              \E j \in 1..Len(df.cols) :
                  /\ df.cols[j] \notin {COL_ID, COL_DELITO, COL_TOTAL_GENERAL}
                  /\ \/ \E k \in 1..Len(MESES) : Contains(df.cols[j], MESES[k])
                     \/ SubSeq(df.cols[j], 1, Len(STR_REGION)) = STR_REGION)
    /\ dash_pc = "melt" => (is_month_format \/ is_region_format)
    /\ (dash_pc \in {"display", "charts"} /\ ~(is_month_format \/ is_region_format))
          => ~df_long.exists

\* C5 witness: the run passed the detection with a candidate column that has
\* "region" inside its name but not at its start, and did not reshape.
ReshapeWitness ==
    /\ dash_pc = "charts"
    /\ ~df_long.exists
    /\ \E j \in 1..Len(columnas_delitos) :
          /\ Contains(columnas_delitos[j], STR_REGION)
          /\ ~StartsWith(columnas_delitos[j], STR_REGION)

\* C8: the run is past the validation only with a table that has rows and
\* columns; when the API download failed or gave nothing, no CSV file exists or
\* the loaded table is empty, the validation shows the warning and stops the
\* run before normalization, reshape, charts and download.
DownstreamOnlyWithData ==
    /\ dash_pc \in Downstream => (Len(df.cols) > 0 /\ Len(df.rows) > 0)
    /\ dash_pc = "stopped" => st_warning
    /\ (dash_pc \notin {"load", "validate"}
          /\ \/ load_outcome \in {"api_failed", "api_nothing", "no_csv"}
             \/ load_outcome = "table" /\ (Len(df.cols) = 0 \/ Len(df.rows) = 0))
       => (dash_pc = "stopped" /\ st_warning)

\* C8 witness: a run was stopped with the warning on a table that has rows but
\* no columns, and so on a table that is empty without having zero rows.
DownstreamOnlyWithDataWitness ==
    /\ dash_pc = "stopped" /\ st_warning
    /\ load_outcome = "table"
    /\ Len(df.rows) > 0 /\ Len(df.cols) = 0

\* C6: when the reshape succeeds the long table has one row per (row, value
\* column) pair: rows of df times value columns, each row with the column's
\* name in region_mes and the cell's value in cantidad.
MeltOneRowPerPair ==
    (dash_pc \in {"display", "charts"} /\ df_long.exists) =>
        /\ Len(df_long.rows) = Len(df.rows) * Len(columnas_delitos)
        /\ \A r \in 1..Len(df.rows), j \in 1..Len(columnas_delitos) :
              \E i \in 1..Len(df_long.rows) :
                  /\ df_long.rows[i].src = r
                  /\ df_long.rows[i].region_mes = CleanRegionMes(columnas_delitos[j])
                  /\ df_long.rows[i].cantidad
                        = df.rows[r][ColIndex(df.cols, columnas_delitos[j])]

\* C7: the filtered table holds exactly the rows whose cell contains the text
\* as a literal substring ignoring case; with empty text it is the displayed
\* table; the CSV holds all filtered rows.
FilterIsLiteralSubstringSearch ==
    f_pc = "done" =>
        /\ df_filtrado = SelectSeq([i \in 1..Len(f_cells) |-> i],
                                   LAMBDA i : StrContainsLiteral(f_cells[i], texto))
        /\ (texto = <<>> => Len(df_filtrado) = Len(f_cells))
        /\ csv_rows = df_filtrado

\* The sums of the groups differ pairwise: the order sort_values gives is then
\* the same with every sorting algorithm.
DistinctSums ==
    \A k1, k2 \in GroupKeys(ag_rows) :
        k1 # k2 => GroupSum(ag_rows, k1) # GroupSum(ag_rows, k2)

\* C9: evolucion_anual returns one row per year with the year's sum, in
\* ascending year order; an empty table when a column is absent. Stated for
\* the tables whose yearly sums differ pairwise, where the code fixes the order
\* of the result.
EvolucionAnualByYear ==
    (ag_pc = "evolucion_anual" /\ DistinctSums) =>
        IF ~ag_has_key \/ ~ag_has_total THEN ag_out = <<>>
        ELSE /\ {ag_out[i].key : i \in 1..Len(ag_out)} = GroupKeys(ag_rows)
             /\ Len(ag_out) = Cardinality(GroupKeys(ag_rows))
             /\ \A i \in 1..Len(ag_out) : ag_out[i].total = GroupSum(ag_rows, ag_out[i].key)
             /\ \A i \in 1..(Len(ag_out) - 1) : ag_out[i].key < ag_out[i + 1].key

\* C10: delitos_mas_frecuentes returns at most n rows, one per distinct
\* category, each with the category's sum, in non-increasing order of the sum;
\* no category left out has a larger sum than a category returned; nothing is
\* left out while fewer than n rows are returned; an empty table when a column
\* is absent.
DelitosMasFrecuentesTopN ==
    ag_pc = "delitos_mas_frecuentes" =>
        IF ~ag_has_key \/ ~ag_has_total THEN ag_out = <<>>
        ELSE LET returned == {ag_out[i].key : i \in 1..Len(ag_out)}
             IN  /\ Len(ag_out) <= ag_n
                 /\ Len(ag_out) = Min(ag_n, Cardinality(GroupKeys(ag_rows)))
                 /\ returned \subseteq GroupKeys(ag_rows)
                 /\ Cardinality(returned) = Len(ag_out)
                 /\ \A i \in 1..Len(ag_out) :
                       ag_out[i].total = GroupSum(ag_rows, ag_out[i].key)
                 /\ \A i \in 1..(Len(ag_out) - 1) : ag_out[i].total >= ag_out[i + 1].total
                 /\ \A k \in GroupKeys(ag_rows) \ returned, i \in 1..Len(ag_out) :
                       GroupSum(ag_rows, k) <= ag_out[i].total

\* C10 witness: three categories with different sums, of which the two largest
\* were returned and the smallest, not the first of the table, was left out.
DelitosMasFrecuentesWitness ==
    /\ ag_pc = "delitos_mas_frecuentes" /\ ag_has_key /\ ag_has_total
    /\ Cardinality(GroupKeys(ag_rows)) = 3
    /\ ag_n = 2 /\ Len(ag_out) = 2
    /\ ag_out[1].total > ag_out[2].total
    /\ \E k \in GroupKeys(ag_rows) : GroupSum(ag_rows, k) < ag_out[2].total

\* C11: the offset sent with each request equals the number of records
\* accumulated so far; against a server that honours limit/offset the requests
\* ask for offsets 0, page_limit, 2*page_limit, ..., every page before the last
\* is full, the last one is shorter than page_limit, it is empty only when N is
\* a multiple of page_limit, and the loop returns after floor(N / page_limit) + 1
\* requests.
PaginationRequests ==
    /\ pc_fetch = "loop" => offset = Len(records)
    /\ Len(sent_offsets) = requests
    /\ \A i \in 1..Len(sent_offsets) : sent_offsets[i] <= Len(records)
    /\ (pc_fetch = "loop" /\ requests > 0) => sent_offsets[requests] < Len(records)
    /\ all_honest =>
          /\ \A i \in 1..requests : sent_offsets[i] = (i - 1) * page_limit
          /\ \A i \in 1..(requests - 1) :
                sent_offsets[i] + page_limit <= server_n
          /\ pc_fetch = "loop" => requests <= server_n \div page_limit
          /\ pc_fetch = "returned" =>
                /\ requests = (server_n \div page_limit) + 1
                /\ server_n - sent_offsets[requests] < page_limit
                /\ (sent_offsets[requests] = server_n) <=> (server_n % page_limit = 0)

\* C11 witness: a download of two full pages and a shorter, non-empty last page
\* has returned after three requests.
PaginationRequestsWitness ==
    /\ pc_fetch = "returned" /\ all_honest
    /\ requests = 3
    /\ server_n % page_limit # 0
    /\ sent_offsets = <<0, page_limit, 2 * page_limit>>

====
